---- MODULE Spec2Model ----
(***************************************************************************)
(* Two components of the superlinked repository:                           *)
(*                                                                         *)
(*  - OnlineCategoricalSimilarityNode (online DAG evaluation): its         *)
(*    construction, evaluate_self over a batch of parsed schemas and       *)
(*    evaluate_self_single, one step per schema, with an instrumented      *)
(*    storage manager and an instrumented parent.  Specification SpecNode. *)
(*                                                                         *)
(*  - DataLoader (server/runner/executor): source registration, load and   *)
(*    the background ingestion tasks.  Specification SpecLoader.           *)
(***************************************************************************)
EXTENDS Integers, Sequences, FiniteSets, TLC

(***************************************************************************)
(* Bounds of the model.                                                    *)
(***************************************************************************)
\* longest batch of parsed schemas handed to evaluate_self
MaxBatch == 2
\* largest number of parents handed to the constructor
MaxParents == 2
\* most tasks the loader creates over all calls of load
MaxTasks == 2
\* longest sequence of sources handed to one register call
MaxRegister == 2

VARIABLES
    ctor,        \* "none" | "ok" | "ConfigurationError": outcome of the last construction
    ctor_arg,    \* number of parents the last construction was given
    parents,     \* self.parents of the constructed node
    store,       \* storage manager: key -> stored vector, or Absent
    calls,       \* caller -> activation record of evaluate_self / evaluate_self_single
    data_loader_sources,  \* DataLoader._data_loader_sources
    data_loader_tasks,    \* DataLoader._data_loader_tasks
    uuids,                \* number of uuid4 names drawn so far
    task_ids,             \* the set the last call of load returned
    sinks,                \* source object -> the puts its sink has received
    error_log,            \* names of the tasks whose traceback logger.error has written
    warnings              \* the config named in the latest duplicate-source warning

nodeVars == <<ctor, ctor_arg, parents, store, calls>>
loaderVars ==
    <<data_loader_sources, data_loader_tasks, uuids, task_ids, sinks, error_log, warnings>>

(***************************************************************************)
(* Values.                                                                 *)
(***************************************************************************)
\* the concurrent callers of the node's evaluation entry points
Callers == {"c1", "c2"}

\* "no stored value" of the storage manager; no vector is empty
Absent == <<>>

\* self.node: the static CategoricalSimilarityNode description
node ==
    [ length         |-> 3,
      default_vector |-> <<0, 0, 0>>,
      categories     |-> <<"red", "blue">> ]

\* a field value of a parsed schema: a label, a value of another type, or no field
Red     == [kind |-> "str",  text |-> "red"]
Pink    == [kind |-> "str",  text |-> "pink"]
Seven   == [kind |-> "int",  text |-> "7"]
NoField == [kind |-> "none", text |-> ""]

\* the parsed schemas of the model: an identity (the storage key component)
\* and the field the parent node reads
ParsedSchemas ==
    { [id |-> 1, field |-> Red],
      [id |-> 2, field |-> Pink],
      [id |-> 1, field |-> Seven],
      [id |-> 2, field |-> NoField] }

Keys == {s.id : s \in ParsedSchemas}

\* the vector the ingestion side writes for a key of this node (of the
\* node's length)
StoredVector(k) == IF k = 1 THEN <<1, 1, 0>> ELSE <<0, 1, 1>>

Contexts == { [is_default_pass |-> TRUE], [is_default_pass |-> FALSE] }

Batches == UNION { [1..n -> ParsedSchemas] : n \in 0..MaxBatch }

\* variant: the length counts the categories and forgets the slot of the
\* other labels
length_of_categories == Len(node.categories)

\* the length property of the online node
length == node.length

\* EvaluationResult(self._get_single_evaluation_result(value))
EvaluationResult(value) == [main |-> value]

NoInput == [kind |-> "none", text |-> "-"]

IdleCall ==
    [ pc      |-> "idle",
      entry   |-> "none",
      schemas |-> <<>>,
      context |-> [is_default_pass |-> FALSE],
      path    |-> "none",
      i       |-> 0,
      acc     |-> <<>>,
      input_  |-> NoInput,
      ret     |-> <<>>,
      exc     |-> "none",
      loads   |-> <<>>,
      pcalls  |-> <<>> ]

AllIdle == \A c \in Callers : calls[c].pc = "idle"

(***************************************************************************)
(* OnlineNode.__init__ and the parent validation                           *)
(***************************************************************************)
\* the validation type the node's constructor hands to OnlineNode.__init__
NoParentValidation == "NO_VALIDATION"
ParentValidation == "LESS_THAN_TWO_PARENTS"

\* ParentValidator: whether a parent list satisfies an arity policy
validate_parents(policy, ps) ==
    CASE policy = "NO_VALIDATION"         -> TRUE
      [] policy = "LESS_THAN_TWO_PARENTS" -> Len(ps) < 2
      [] policy = "EXACTLY_ONE_PARENT"    -> Len(ps) = 1
      [] policy = "AT_LEAST_ONE_PARENT"   -> Len(ps) >= 1

\* OnlineCategoricalSimilarityNode(node, parents, storage_manager): the node
\* is built once per session; a failed construction may be tried again
Construct(n) ==
    /\ ctor # "ok"
    /\ LET ps == [k \in 1..n |-> "field_node"] IN
       IF validate_parents(ParentValidation, ps)
       THEN /\ ctor' = "ok"
            /\ parents' = ps
       ELSE /\ ctor' = "ConfigurationError"
            /\ parents' = <<>>
    /\ ctor_arg' = n
    /\ UNCHANGED <<store, calls, loaderVars>>

(***************************************************************************)
(* Collaborators of the node                                               *)
(***************************************************************************)
\* the ingestion side writes a pre-computed vector for a key of a source
\* (parentless) node; the store is read-only while an evaluation is in flight
StorePut(k) ==
    /\ ctor = "ok"
    /\ Len(parents) = 0
    /\ AllIdle
    /\ store[k] = Absent
    /\ store' = [store EXCEPT ![k] = StoredVector(k)]
    /\ UNCHANGED <<ctor, ctor_arg, parents, calls, loaderVars>>

\* OnlineNode._should_return_default_vector(parsed_schemas, context)
should_return_default_vector(parsed_schemas, context) ==
    context.is_default_pass

\* the storage key of a schema for this node
key(parsed_schema) == parsed_schema.id

\* parent.evaluate_next_single(schema, context): the parent's main value,
\* or NoField when the parent fails
parent_evaluate_next_single(parsed_schema, context) ==
    IF context.is_default_pass
    THEN [kind |-> "str", text |-> ""]
    ELSE parsed_schema.field

RECURSIVE IndexOf(_, _, _)
IndexOf(seq, x, k) ==
    IF k > Len(seq) THEN 0
    ELSE IF seq[k] = x THEN k
    ELSE IndexOf(seq, x, k + 1)

\* self.node.embedding.embed(value, context): one slot per category and a
\* last slot for every other label
embed(text, context) ==
    LET hit  == IndexOf(node.categories, text, 1)
        slot == IF hit = 0 THEN Len(node.categories) + 1 ELSE hit
    IN  [k \in 1..(Len(node.categories) + 1) |-> IF k = slot THEN 1 ELSE 0]

(***************************************************************************)
(* evaluate_self and evaluate_self_single                                  *)
(***************************************************************************)
\* variant: the failure is swallowed and the results gathered so far are
\* returned as the batch's list
raise_partial(r, error) ==
    [r EXCEPT !.pc = "returned", !.ret = r.acc, !.acc = <<>>, !.input_ = NoInput]

\* an exception leaves the frame: the results gathered so far are dropped
\* and the caller receives the error alone
raise(r, error) ==
    [r EXCEPT !.pc = "raised", !.exc = error, !.acc = <<>>, !.input_ = NoInput]

\* variant: the results are gathered newest first
collect_reversed(acc, result) == <<result>> \o acc

\* the list comprehension of evaluate_self gathers the results in input order
collect(acc, result) == Append(acc, result)

\* OnlineNode.load_stored_result_or_raise_exception(parsed_schema): the
\* stored vector of the schema's key, or MissingStoredResultError
load_stored_result_or_raise_exception(parsed_schema) ==
    LET stored_result == store[key(parsed_schema)] IN
    IF stored_result = Absent
    THEN [exc |-> "MissingStoredResultError", value |-> Absent]
    ELSE [exc |-> "none", value |-> stored_result]

\* variant: the stored results are loaded before the defaults are returned
default_branch_loading(r) ==
    [r EXCEPT !.pc    = "returned",
              !.path  = "default",
              !.loads = [k \in 1..Len(r.schemas) |-> key(r.schemas[k])],
              !.ret   = [k \in 1..Len(r.schemas) |->
                            EvaluationResult(node.default_vector)]]

\* the default-vector branch of evaluate_self: one default result per schema
default_branch(r) ==
    [r EXCEPT !.pc   = "returned",
              !.path = "default",
              !.ret  = [k \in 1..Len(r.schemas) |->
                            EvaluationResult(node.default_vector)]]

\* evaluate_self(parsed_schemas, context): the decision taken once for the batch
evaluate_self(parsed_schemas, context) ==
    LET r == [IdleCall EXCEPT !.entry = "batch",
                              !.schemas = parsed_schemas,
                              !.context = context]
    IN  IF should_return_default_vector(parsed_schemas, context)
        THEN default_branch(r)
        ELSE [r EXCEPT !.pc = "single", !.path = "per_schema", !.i = 1]

\* variant: the stored result is loaded before the parents are looked at
evaluate_self_single_always_load(r) ==
    LET parsed_schema == r.schemas[r.i]
        stored_result == load_stored_result_or_raise_exception(parsed_schema)
        loaded == [r EXCEPT !.loads = Append(@, key(parsed_schema))]
    IN  IF Len(parents) = 0
        THEN IF stored_result.exc # "none"
             THEN raise(loaded, stored_result.exc)
             ELSE [loaded EXCEPT
                     !.acc = collect(@, EvaluationResult(stored_result.value)),
                     !.i   = @ + 1]
        ELSE LET input_ == parent_evaluate_next_single(parsed_schema, r.context)
                 asked  == [loaded EXCEPT
                              !.pcalls = Append(@, [schema  |-> parsed_schema,
                                                    context |-> r.context])]
             IN  IF input_.kind = "none"
                 THEN raise(asked, "ParentError")
                 ELSE [asked EXCEPT !.pc = "embed", !.input_ = input_]

\* variant: every schema of the batch is evaluated as the first one
evaluate_self_single_first(r) ==
    LET parsed_schema == r.schemas[1] IN
    IF Len(parents) = 0
    THEN LET stored_result == load_stored_result_or_raise_exception(parsed_schema)
             loaded == [r EXCEPT !.loads = Append(@, key(parsed_schema))]
         IN  IF stored_result.exc # "none"
             THEN raise(loaded, stored_result.exc)
             ELSE [loaded EXCEPT
                     !.acc = collect(@, EvaluationResult(stored_result.value)),
                     !.i   = @ + 1]
    ELSE LET input_ == parent_evaluate_next_single(parsed_schema, r.context)
             asked  == [r EXCEPT !.pcalls = Append(@, [schema  |-> parsed_schema,
                                                       context |-> r.context])]
         IN  IF input_.kind = "none"
             THEN raise(asked, "ParentError")
             ELSE [asked EXCEPT !.pc = "embed", !.input_ = input_]

\* variant: a parentless node answers a missing stored result with the
\* default vector
evaluate_self_single_fabricating(r) ==
    LET parsed_schema == r.schemas[r.i]
        stored_result == load_stored_result_or_raise_exception(parsed_schema)
        loaded == [r EXCEPT !.loads = Append(@, key(parsed_schema))]
    IN  IF Len(parents) = 0
        THEN [loaded EXCEPT
                !.acc = collect(@, EvaluationResult(
                            IF stored_result.exc # "none"
                            THEN node.default_vector
                            ELSE stored_result.value)),
                !.i   = @ + 1]
        ELSE [r EXCEPT !.pc = "embed",
                       !.pcalls = Append(@, [schema |-> parsed_schema,
                                             context |-> r.context]),
                       !.input_ = parent_evaluate_next_single(parsed_schema, r.context)]

\* variant: the parent is asked under a default-pass context of the node's
\* own making instead of the context given
evaluate_self_single_own_context(r) ==
    LET parsed_schema == r.schemas[r.i]
        own == [r.context EXCEPT !.is_default_pass = TRUE]
    IN
    IF Len(parents) = 0
    THEN LET stored_result == load_stored_result_or_raise_exception(parsed_schema)
             loaded == [r EXCEPT !.loads = Append(@, key(parsed_schema))]
         IN  IF stored_result.exc # "none"
             THEN raise(loaded, stored_result.exc)
             ELSE [loaded EXCEPT
                     !.acc = collect(@, EvaluationResult(stored_result.value)),
                     !.i   = @ + 1]
    ELSE LET input_ == parent_evaluate_next_single(parsed_schema, own)
             asked  == [r EXCEPT !.pcalls = Append(@, [schema  |-> parsed_schema,
                                                       context |-> own])]
         IN  IF input_.kind = "none"
             THEN raise(asked, "ParentError")
             ELSE [asked EXCEPT !.pc = "embed", !.input_ = input_]

\* evaluate_self_single up to the parent's answer: a parentless node loads
\* its stored result, a node with parents asks parents[0]
evaluate_self_single(r) ==
    LET parsed_schema == r.schemas[r.i] IN
    IF Len(parents) = 0
    THEN LET stored_result == load_stored_result_or_raise_exception(parsed_schema)
             loaded == [r EXCEPT !.loads = Append(@, key(parsed_schema))]
         IN  IF stored_result.exc # "none"
             THEN raise(loaded, stored_result.exc)
             ELSE [loaded EXCEPT
                     !.acc = collect(@, EvaluationResult(stored_result.value)),
                     !.i   = @ + 1]
    ELSE LET input_ == parent_evaluate_next_single(parsed_schema, r.context)
             asked  == [r EXCEPT !.pcalls = Append(@, [schema  |-> parsed_schema,
                                                       context |-> r.context])]
         IN  IF input_.kind = "none"
             THEN raise(asked, "ParentError")
             ELSE [asked EXCEPT !.pc = "embed", !.input_ = input_]

\* variant: the parent's answer is kept on the node, where another call in
\* flight overwrites it before it is embedded
embed_input_shared(r) ==
    LET others == { c \in Callers : calls[c].pc = "embed" /\ calls[c] # r }
        input_ == IF others = {} THEN r.input_
                  ELSE calls[CHOOSE c \in others : TRUE].input_
    IN  IF input_.kind # "str"
        THEN raise(r, "TypeMismatchError")
        ELSE [r EXCEPT
                !.pc     = "single",
                !.acc    = collect(@, EvaluationResult(embed(input_.text, r.context))),
                !.input_ = NoInput,
                !.i      = @ + 1]

\* evaluate_self_single after the parent's answer: embed its main value
embed_input(r) ==
    IF r.input_.kind # "str"
    THEN raise(r, "TypeMismatchError")
    ELSE [r EXCEPT
            !.pc     = "single",
            !.acc    = collect(@, EvaluationResult(embed(r.input_.text, r.context))),
            !.input_ = NoInput,
            !.i      = @ + 1]

\* the return of evaluate_self (or of a direct evaluate_self_single)
return_results(r) == [r EXCEPT !.pc = "returned", !.ret = r.acc, !.acc = <<>>]

\* a caller calls evaluate_self on a batch
CallEvaluateSelf(c, parsed_schemas, context) ==
    /\ ctor = "ok"
    /\ calls[c].pc = "idle"
    /\ calls' = [calls EXCEPT ![c] = evaluate_self(parsed_schemas, context)]
    /\ UNCHANGED <<ctor, ctor_arg, parents, store, loaderVars>>

\* a caller calls evaluate_self_single directly on one schema
CallEvaluateSelfSingle(c, parsed_schema, context) ==
    /\ ctor = "ok"
    /\ calls[c].pc = "idle"
    /\ calls' = [calls EXCEPT ![c] =
                    [IdleCall EXCEPT !.entry   = "single",
                                     !.schemas = <<parsed_schema>>,
                                     !.context = context,
                                     !.pc      = "single",
                                     !.path    = "per_schema",
                                     !.i       = 1]]
    /\ UNCHANGED <<ctor, ctor_arg, parents, store, loaderVars>>

\* one schema of the batch enters evaluate_self_single
StepSingle(c) ==
    /\ calls[c].pc = "single"
    /\ calls[c].i <= Len(calls[c].schemas)
    /\ calls' = [calls EXCEPT ![c] = evaluate_self_single(calls[c])]
    /\ UNCHANGED <<ctor, ctor_arg, parents, store, loaderVars>>

\* the parent has answered: the embedding is applied
StepEmbed(c) ==
    /\ calls[c].pc = "embed"
    /\ calls' = [calls EXCEPT ![c] = embed_input(calls[c])]
    /\ UNCHANGED <<ctor, ctor_arg, parents, store, loaderVars>>

\* every schema is done: the call returns its list
StepReturn(c) ==
    /\ calls[c].pc = "single"
    /\ calls[c].i > Len(calls[c].schemas)
    /\ calls' = [calls EXCEPT ![c] = return_results(calls[c])]
    /\ UNCHANGED <<ctor, ctor_arg, parents, store, loaderVars>>

\* the caller has taken the outcome (the list or the error)
Finish(c) ==
    /\ calls[c].pc \in {"returned", "raised"}
    /\ calls' = [calls EXCEPT ![c] = IdleCall]
    /\ UNCHANGED <<ctor, ctor_arg, parents, store, loaderVars>>

(***************************************************************************)
(* DataLoader: sources, files and the pandas readers                       *)
(***************************************************************************)
\* the rows of the delimited file "a,b\n1,2\n3,4\n5,6\n"
Rows == <<"1,2", "3,4", "5,6">>

\* the rows of a file whose third data row has a field too many: the parser
\* raises when it reaches that row
BrokenRows == <<"1,2", "3,4", "5,6,7">>

\* the files that exist, by path
Files == [p \in {"rows.csv", "broken.csv"} |->
             IF p = "rows.csv" THEN Rows ELSE BrokenRows]

\* a row the pandas parser rejects
Malformed(row) == row = "5,6,7"

\* the parser raises while it reads these rows
Unreadable(rows) == \E k \in DOMAIN rows : Malformed(rows[k])

PlainConfig   == [path |-> "rows.csv",    format |-> "CSV", chunksize |-> 0]
ChunkedConfig == [path |-> "rows.csv",    format |-> "CSV", chunksize |-> 2]
NowhereConfig == [path |-> "nowhere.csv", format |-> "CSV", chunksize |-> 0]
BrokenConfig  == [path |-> "broken.csv",  format |-> "CSV", chunksize |-> 2]

\* the DataLoaderSource objects: an identity (which owns the sink) and a config
DataLoaderSources ==
    { [obj |-> "a",  config |-> PlainConfig],
      [obj |-> "a2", config |-> PlainConfig],
      [obj |-> "b",  config |-> ChunkedConfig],
      [obj |-> "c",  config |-> NowhereConfig],
      [obj |-> "d",  config |-> BrokenConfig] }

SourceObjects == {s.obj : s \in DataLoaderSources}

\* DataLoaderSource.__eq__ / __hash__: sources are equal when their configs are
SourceEq(s1, s2) == s1.config = s2.config

\* `source in self._data_loader_sources`
Contains(sources, source) == \E s \in sources : SourceEq(s, source)

DataFormats == {"CSV", "FWF", "XML", "JSON", "PARQUET", "ORC"}

RECURSIVE ChunksOf(_, _)
ChunksOf(rows, n) ==
    IF Len(rows) = 0 THEN <<>>
    ELSE IF Len(rows) <= n THEN <<rows>>
    ELSE <<SubSeq(rows, 1, n)>> \o ChunksOf(SubSeq(rows, n + 1, Len(rows)), n)

\* __read_data(path, format, kwargs): what the pandas read method gives, as the
\* sequence of frames the task will put, or the exception it raises
read_data(config) ==
    IF config.format \notin DataFormats
    THEN [kind |-> "raise", exc |-> "ValueError", frames |-> <<>>]
    ELSE IF config.path \notin DOMAIN Files
    THEN [kind |-> "raise", exc |-> "FileNotFoundError", frames |-> <<>>]
    ELSE IF config.chunksize = 0 /\ Unreadable(Files[config.path])
    THEN [kind |-> "raise", exc |-> "ParserError", frames |-> <<>>]
    ELSE IF config.chunksize = 0
    THEN [kind |-> "DataFrame", exc |-> "none", frames |-> <<Files[config.path]>>]
    ELSE [kind |-> "TextFileReader", exc |-> "none",
          frames |-> ChunksOf(Files[config.path], config.chunksize)]

(***************************************************************************)
(* DataLoader: the operations                                              *)
(***************************************************************************)
\* variant: the loop adds every given source without the membership test
RECURSIVE register_all(_, _)
register_all(sources, given) ==
    IF given = <<>> THEN sources
    ELSE register_all(sources \cup {Head(given)}, Tail(given))

\* the loop of register_data_loader_sources over the given sequence
RECURSIVE register(_, _)
register(sources, given) ==
    IF given = <<>> THEN sources
    ELSE IF Contains(sources, Head(given))
         THEN register(sources, Tail(given))
         ELSE register(sources \cup {Head(given)}, Tail(given))

\* the log of duplicate warnings after the loop, kept as the configuration
\* named in its latest line (empty while no duplicate was met)
RECURSIVE warned(_, _, _)
warned(sources, given, log) ==
    IF given = <<>> THEN log
    ELSE IF Contains(sources, Head(given))
         THEN warned(sources, Tail(given), {Head(given).config})
         ELSE warned(sources \cup {Head(given)}, Tail(given), log)

\* (no call is modelled once MaxTasks tasks exist: no load could follow it)
RegisterDataLoaderSources(given) ==
    /\ uuids < MaxTasks
    /\ data_loader_sources' = register(data_loader_sources, given)
    /\ warnings' = warned(data_loader_sources, given, warnings)
    /\ UNCHANGED <<data_loader_tasks, uuids, task_ids, sinks, error_log, nodeVars>>

\* variant: one uuid is drawn before the loop and names every task of the call
create_task_one_name(source, name) ==
    [ name   |-> uuids + 1,
      source |-> source,
      state  |-> "running",
      step   |-> "read",
      frames |-> <<>>,
      exc    |-> "none" ]

\* asyncio.create_task(asyncio.to_thread(self.__read_and_put_data, source),
\*                     name=str(uuid.uuid4()))
create_task(source, name) ==
    [ name   |-> name,
      source |-> source,
      state  |-> "running",
      step   |-> "read",
      frames |-> <<>>,
      exc    |-> "none" ]

\* the order in which load's loop meets the registered sources; the k-th
\* source met gets the k-th uuid drawn.  The uuids are fresh names without
\* meaning, so one order of the set stands for all of them.
RECURSIVE Order(_)
Order(S) ==
    IF S = {} THEN <<>>
    ELSE LET s == CHOOSE x \in S : TRUE IN <<s>> \o Order(S \ {s})

\* variant: load starts a task only for the sources that have none yet
LoadOnlyNew(order) ==
    /\ uuids + Len(order) <= MaxTasks
    /\ LET created == { create_task(order[k], uuids + k) :
                          k \in { j \in DOMAIN order :
                                    \A t \in data_loader_tasks : t.source # order[j] } }
       IN
       /\ data_loader_tasks' = data_loader_tasks \cup created
       /\ task_ids' = { t.name : t \in created }
    /\ uuids' = uuids + Len(order)
    /\ UNCHANGED <<data_loader_sources, sinks, error_log, warnings, nodeVars>>

\* variant: load forgets the tasks that are done when it adds the new ones
LoadDroppingDone(order) ==
    /\ uuids + Len(order) <= MaxTasks
    /\ LET created == { create_task(order[k], uuids + k) : k \in DOMAIN order } IN
       /\ data_loader_tasks' =
             {t \in data_loader_tasks : t.state = "running"} \cup created
       /\ task_ids' = { t.name : t \in created }
    /\ uuids' = uuids + Len(order)
    /\ UNCHANGED <<data_loader_sources, sinks, error_log, warnings, nodeVars>>

Load(order) ==
    /\ uuids + Len(order) <= MaxTasks
    /\ LET created == { create_task(order[k], uuids + k) : k \in DOMAIN order } IN
       /\ data_loader_tasks' = data_loader_tasks \cup created
       /\ task_ids' = { t.name : t \in created }
    /\ uuids' = uuids + Len(order)
    /\ UNCHANGED <<data_loader_sources, sinks, error_log, warnings, nodeVars>>

\* the outcome of the worker thread reaches the task: a task that is still
\* running becomes done, with or without an exception; a task cancelled in
\* the meantime stays cancelled, and the outcome of its thread is dropped
settle(t, exc) ==
    IF t.state = "cancelled"
    THEN [t EXCEPT !.step = "end", !.frames = <<>>]
    ELSE [t EXCEPT !.state = IF exc = "none" THEN "done" ELSE "failed",
                   !.step = "end", !.frames = <<>>, !.exc = exc]

\* variant: a read that raises takes the other unfinished tasks down with it
TaskReadFailingAll(t) ==
    /\ t.step = "read"
    /\ LET data == read_data(t.source.config) IN
       data_loader_tasks' =
          IF data.kind = "raise"
          THEN { IF u.state = "running" THEN settle(u, data.exc) ELSE u :
                    u \in data_loader_tasks }
          ELSE (data_loader_tasks \ {t}) \cup
                  {[t EXCEPT !.step = "put", !.frames = data.frames]}
    /\ UNCHANGED <<data_loader_sources, uuids, task_ids, sinks, error_log, warnings, nodeVars>>

\* the types of lines 79 and 86
ReaderKinds == {"DataFrame", "TextFileReader", "JsonReader"}

\* the worker thread of a task calls __read_data; an exception of the read,
\* or the TypeError for an object of another type, ends the thread function
TaskRead(t) ==
    /\ t.step = "read"
    /\ LET data == read_data(t.source.config)
           t2   == IF data.kind = "raise"
                   THEN settle(t, data.exc)
                   ELSE IF data.kind \notin ReaderKinds
                   THEN settle(t, "TypeError")
                   ELSE [t EXCEPT !.step = "put", !.frames = data.frames]
       IN  data_loader_tasks' = (data_loader_tasks \ {t}) \cup {t2}
    /\ UNCHANGED <<data_loader_sources, uuids, task_ids, sinks, error_log, warnings, nodeVars>>

\* variant: every frame is put twice
TaskPutTwice(t) ==
    /\ t.step = "put"
    /\ t.frames # <<>>
    /\ ~Unreadable(Head(t.frames))
    /\ sinks' = [sinks EXCEPT ![t.source.obj] =
                    @ \o << [task |-> t.name, rows |-> Head(t.frames)],
                            [task |-> t.name, rows |-> Head(t.frames)] >>]
    /\ data_loader_tasks' =
          (data_loader_tasks \ {t}) \cup {[t EXCEPT !.frames = Tail(@)]}
    /\ UNCHANGED <<data_loader_sources, uuids, task_ids, error_log, warnings, nodeVars>>

\* source._source.put(data) for the whole frame, or for the next chunk
TaskPut(t) ==
    /\ t.step = "put"
    /\ t.frames # <<>>
    /\ ~Unreadable(Head(t.frames))
    /\ sinks' = [sinks EXCEPT ![t.source.obj] =
                    Append(@, [task |-> t.name, rows |-> Head(t.frames)])]
    /\ data_loader_tasks' =
          (data_loader_tasks \ {t}) \cup {[t EXCEPT !.frames = Tail(@)]}
    /\ UNCHANGED <<data_loader_sources, uuids, task_ids, error_log, warnings, nodeVars>>

\* the entries of a sink without those of one task
RECURSIVE Without(_, _)
Without(n, entries) ==
    IF entries = <<>> THEN <<>>
    ELSE IF Head(entries).task = n THEN Without(n, Tail(entries))
    ELSE <<Head(entries)>> \o Without(n, Tail(entries))

\* variant: a chunk that fails takes the chunks put before it out of the sink
TaskChunkRaisesRollback(t) ==
    /\ t.step = "put"
    /\ t.frames # <<>>
    /\ Unreadable(Head(t.frames))
    /\ sinks' = [sinks EXCEPT ![t.source.obj] = Without(t.name, @)]
    /\ data_loader_tasks' = (data_loader_tasks \ {t}) \cup {settle(t, "ParserError")}
    /\ UNCHANGED <<data_loader_sources, uuids, task_ids, error_log, warnings, nodeVars>>

\* `for chunk in data`: the reader raises on the next chunk; the exception
\* leaves __read_and_put_data, the chunks put before stay where they are
TaskChunkRaises(t) ==
    /\ t.step = "put"
    /\ t.frames # <<>>
    /\ Unreadable(Head(t.frames))
    /\ data_loader_tasks' = (data_loader_tasks \ {t}) \cup {settle(t, "ParserError")}
    /\ UNCHANGED <<data_loader_sources, uuids, task_ids, sinks, error_log, warnings, nodeVars>>

\* variant: the thread returns and its task never learns of it
TaskFinishUnnoticed(t) ==
    /\ t.step = "put"
    /\ t.frames = <<>>
    /\ data_loader_tasks' = (data_loader_tasks \ {t}) \cup {[t EXCEPT !.step = "end"]}
    /\ UNCHANGED <<data_loader_sources, uuids, task_ids, sinks, error_log, warnings, nodeVars>>

\* __read_and_put_data returns: the task is done without an exception
TaskFinish(t) ==
    /\ t.step = "put"
    /\ t.frames = <<>>
    /\ data_loader_tasks' = (data_loader_tasks \ {t}) \cup {settle(t, "none")}
    /\ UNCHANGED <<data_loader_sources, uuids, task_ids, sinks, error_log, warnings, nodeVars>>

\* the task is cancelled from outside the loader (the loader itself cancels
\* nothing): a task that is not done becomes cancelled.  The function handed
\* to asyncio.to_thread is dropped if no thread has picked it up, and runs to
\* its end if one has.
TaskCancel(t, started) ==
    /\ t.state = "running"
    /\ started \/ t.step = "read"
    /\ data_loader_tasks' =
          (data_loader_tasks \ {t}) \cup
             {IF started THEN [t EXCEPT !.state = "cancelled"]
                         ELSE [t EXCEPT !.state = "cancelled", !.step = "end"]}
    /\ UNCHANGED <<data_loader_sources, uuids, task_ids, sinks, error_log, warnings, nodeVars>>

\* asyncio.Task.done(), .cancelled() and .exception(): exception() raises
\* for a task that is not done or was cancelled, and gives None ("none") for
\* a task that returned
task_done(task) == task.state # "running"

task_cancelled(task) == task.state = "cancelled"

task_exception(task) ==
    IF ~task_done(task) THEN "raise InvalidStateError"
    ELSE IF task_cancelled(task) THEN "raise CancelledError"
    ELSE task.exc

Raises(answer) == answer \in {"raise InvalidStateError", "raise CancelledError"}

\* the answer for a failed task carries the text of its exception
FailedWith(exc) ==
    "Task failed with exception: " \o exc \o ". For traceback, check the logs."

\* variant: the exception is looked at before the cancellation
get_task_status_exception_first(task_id) ==
    LET found == { t \in data_loader_tasks : t.name = task_id } IN
    IF found = {} THEN "None"
    ELSE LET task == CHOOSE t \in found : TRUE IN
         IF ~task_done(task) THEN "Task is still running"
         ELSE IF Raises(task_exception(task)) THEN task_exception(task)
         ELSE IF task_exception(task) # "none" THEN FailedWith(task_exception(task))
         ELSE IF task_cancelled(task) THEN "Task was cancelled"
         ELSE "Task completed successfully"

\* get_task_status_by_name(task_id): the answer, or the exception that leaves
\* the call
get_task_status_by_name(task_id) ==
    LET found == { t \in data_loader_tasks : t.name = task_id } IN
    IF found = {} THEN "None"
    ELSE LET task == CHOOSE t \in found : TRUE IN
         IF ~task_done(task) THEN "Task is still running"
         ELSE IF task_cancelled(task) THEN "Task was cancelled"
         ELSE IF Raises(task_exception(task)) THEN task_exception(task)
         ELSE IF task_exception(task) # "none" THEN FailedWith(task_exception(task))
         ELSE "Task completed successfully"

Exceptions == {"ValueError", "FileNotFoundError", "ParserError", "TypeError"}

FailedAnswers == {FailedWith(exc) : exc \in Exceptions}

\* a call of get_task_status_by_name: the answer goes to the caller; for a
\* failed task the traceback is written to the log
GetTaskStatusByName(task_id) ==
    /\ error_log' =
          IF get_task_status_by_name(task_id) \in FailedAnswers
          THEN error_log \cup {task_id}
          ELSE error_log
    /\ UNCHANGED <<data_loader_sources, data_loader_tasks, uuids, task_ids, sinks, warnings,
                   nodeVars>>

(***************************************************************************)
(* Specification of the node                                               *)
(***************************************************************************)
NodeInit ==
    /\ ctor = "none"
    /\ ctor_arg = 0
    /\ parents = <<>>
    /\ store = [k \in Keys |-> Absent]
    /\ calls = [c \in Callers |-> IdleCall]

NodeNext ==
    \/ \E n \in 0..MaxParents : Construct(n)
    \/ \E k \in Keys : StorePut(k)
    \/ \E c \in Callers, b \in Batches, x \in Contexts : CallEvaluateSelf(c, b, x)
    \/ \E c \in Callers, s \in ParsedSchemas, x \in Contexts :
          CallEvaluateSelfSingle(c, s, x)
    \/ \E c \in Callers : StepSingle(c)
    \/ \E c \in Callers : StepEmbed(c)
    \/ \E c \in Callers : StepReturn(c)
    \/ \E c \in Callers : Finish(c)

(***************************************************************************)
(* Specification of the loader                                             *)
(***************************************************************************)
LoaderInit ==
    /\ data_loader_sources = {}
    /\ data_loader_tasks = {}
    /\ uuids = 0
    /\ task_ids = {}
    /\ sinks = [o \in SourceObjects |-> <<>>]
    /\ error_log = {}
    /\ warnings = {}

\* the arguments of register_data_loader_sources: up to MaxRegister source
\* objects, each at most once (equal sources are two objects with one config)
GivenSources ==
    UNION { { given \in [1..n -> DataLoaderSources] :
                \A i, j \in 1..n : given[i] = given[j] => i = j } : n \in 1..MaxRegister }

LoaderNext ==
    \/ \E given \in GivenSources : RegisterDataLoaderSources(given)
    \/ \E order \in {Order(data_loader_sources)} : Load(order)
    \/ \E t \in data_loader_tasks : TaskRead(t)
    \/ \E t \in data_loader_tasks : TaskPut(t)
    \/ \E t \in data_loader_tasks : TaskChunkRaises(t)
    \/ \E t \in data_loader_tasks : TaskFinish(t)
    \/ \E t \in data_loader_tasks, started \in BOOLEAN : TaskCancel(t, started)
    \/ \E id \in 1..(MaxTasks + 1) : GetTaskStatusByName(id)

vars == <<nodeVars, loaderVars>>

Init == NodeInit /\ LoaderInit

SpecNode == Init /\ [][NodeNext]_vars

SpecLoader == Init /\ [][LoaderNext]_vars

\* a step of the worker thread of the task of this name
ThreadStep(n) ==
    \E t \in data_loader_tasks :
        /\ t.name = n
        /\ (TaskRead(t) \/ TaskPut(t) \/ TaskChunkRaises(t) \/ TaskFinish(t))

\* the loader with threads that are scheduled: a worker thread that can take
\* a step (its read, every put and its return come back) takes it in the end
SpecLoaderFair ==
    /\ Init
    /\ [][LoaderNext]_vars
    /\ \A n \in 1..MaxTasks : WF_vars(ThreadStep(n))

(***************************************************************************)
(* Properties of the node                                                  *)
(***************************************************************************)
Returned(c) == calls[c].pc = "returned"
Raised(c)   == calls[c].pc = "raised"
Finished(c) == Returned(c) \/ Raised(c)

\* the result the node computes for one schema on the path a call took
ResultFor(c, parsed_schema) ==
    IF calls[c].path = "default"
    THEN EvaluationResult(node.default_vector)
    ELSE IF Len(parents) = 0
    THEN EvaluationResult(store[key(parsed_schema)])
    ELSE EvaluationResult(embed(parsed_schema.field.text, calls[c].context))

\* C1: whenever evaluate_self has returned, the list has the length of the
\* batch and its i-th result is the result of the i-th input schema, on the
\* default-vector path and on the per-schema path.
C1_OutputOrder ==
    \A c \in Callers :
        (Returned(c) /\ calls[c].entry = "batch") =>
            /\ Len(calls[c].ret) = Len(calls[c].schemas)
            /\ \A k \in 1..Len(calls[c].schemas) :
                  calls[c].ret[k] = ResultFor(c, calls[c].schemas[k])

\* a returned per-schema batch of two schemas whose results differ
C1_Witness ==
    \E c \in Callers :
        /\ Returned(c)
        /\ calls[c].entry = "batch"
        /\ calls[c].path = "per_schema"
        /\ Len(calls[c].schemas) = 2
        /\ calls[c].ret[1] # calls[c].ret[2]

\* C2: when the default-vector decision is taken (once, for the batch), every
\* result is the configured default vector, the storage manager has received
\* no load and no parent has been asked, with zero parents or one.
C2_DefaultPassPure ==
    \A c \in Callers :
        calls[c].path = "default" =>
              /\ Returned(c)
              /\ Len(parents) \in {0, 1}
              /\ Len(calls[c].ret) = Len(calls[c].schemas)
              /\ \A k \in 1..Len(calls[c].ret) :
                    calls[c].ret[k].main = node.default_vector
              /\ calls[c].loads = <<>>
              /\ calls[c].pcalls = <<>>

\* a default pass over two schemas of a parentless node, one of them without
\* a stored value
C2_Witness ==
    \E c \in Callers :
        /\ calls[c].path = "default"
        /\ Len(parents) = 0
        /\ Len(calls[c].schemas) = 2
        /\ \E k \in 1..2 : store[key(calls[c].schemas[k])] = Absent

\* C3: outside a default pass a parentless node fails with
\* MissingStoredResultError on a schema whose key has no stored value, and
\* returns no fabricated value for it; a returned result's main value is the
\* stored vector.
C3_MissingStoredResult ==
    \A c \in Callers :
        (Len(parents) = 0 /\ calls[c].path = "per_schema" /\ Finished(c)) =>
            /\ Returned(c) =>
                  \A k \in 1..Len(calls[c].schemas) :
                      /\ store[key(calls[c].schemas[k])] # Absent
                      /\ Len(calls[c].ret) >= k
                      /\ calls[c].ret[k].main = store[key(calls[c].schemas[k])]
            /\ Raised(c) =>
                  /\ calls[c].exc = "MissingStoredResultError"
                  /\ store[key(calls[c].schemas[calls[c].i])] = Absent
                  /\ calls[c].ret = <<>>

\* a parentless node has failed on the second schema of a batch, the first
\* one being stored
C3_Witness ==
    \E c \in Callers :
        /\ Len(parents) = 0
        /\ Raised(c)
        /\ calls[c].exc = "MissingStoredResultError"
        /\ calls[c].i = 2

\* C4: a call of evaluate_self either returns one result per schema or fails
\* with an error and no list at all; the schema that failed was evaluated
\* once and nothing after it was evaluated.
C4_AllOrNothing ==
    \A c \in Callers :
        (calls[c].entry = "batch" /\ Finished(c)) =>
            /\ Returned(c) =>
                  /\ Len(calls[c].ret) = Len(calls[c].schemas)
                  /\ calls[c].exc = "none"
            /\ Raised(c) =>
                  /\ calls[c].ret = <<>>
                  /\ calls[c].exc # "none"
                  /\ calls[c].i \in 1..Len(calls[c].schemas)
                  /\ Len(calls[c].loads) + Len(calls[c].pcalls) = calls[c].i

\* a batch has failed at its second schema, after the first one succeeded
C4_Witness ==
    \E c \in Callers :
        /\ calls[c].entry = "batch"
        /\ Raised(c)
        /\ calls[c].i = 2

\* what the caller of a finished call holds for position k: the k-th result,
\* or the error the call failed with
OutcomeAt(c, k) ==
    IF Returned(c)
    THEN [exc |-> "none", result |-> calls[c].ret[k]]
    ELSE [exc |-> calls[c].exc, result |-> EvaluationResult(Absent)]

\* c2 has evaluated, under the context of c1, the k-th schema of c1 alone
Alone(c1, k, c2) ==
    /\ c1 # c2
    /\ Finished(c1)
    /\ Finished(c2)
    /\ calls[c1].entry = "batch"
    /\ k \in 1..Len(calls[c1].schemas)
    /\ calls[c2].schemas = <<calls[c1].schemas[k]>>
    /\ calls[c2].context = calls[c1].context

\* C5 as stated: at every position of a batch the caller holds the outcome
\* the schema gives when evaluated alone, as a one-element batch or through
\* evaluate_self_single, under any context.
C5_Original ==
    \A c1 \in Callers, c2 \in Callers :
        \A k \in 1..Len(calls[c1].schemas) :
            Alone(c1, k, c2) => OutcomeAt(c1, k) = OutcomeAt(c2, 1)

\* C5 amended: a batch that returns holds at position i the result of schema
\* i evaluated alone; a batch that fails carries the error of its first
\* failing schema evaluated alone, the schemas before it succeeding alone.
\* Alone means as a one-element batch under any context, and through
\* evaluate_self_single outside a default pass.
C5_BatchAsSingles ==
    \A c1 \in Callers, c2 \in Callers :
        \A k \in 1..Len(calls[c1].schemas) :
            ( /\ Alone(c1, k, c2)
              /\ calls[c2].entry = "batch" \/ ~calls[c1].context.is_default_pass )
            =>
            /\ Returned(c1) => OutcomeAt(c2, 1) = OutcomeAt(c1, k)
            /\ (Raised(c1) /\ k = calls[c1].i) => OutcomeAt(c2, 1) = OutcomeAt(c1, k)
            /\ (Raised(c1) /\ k < calls[c1].i) => Returned(c2)

\* a returned per-schema batch of two schemas beside its second schema
\* evaluated alone
C5_Witness ==
    \E c1 \in Callers, c2 \in Callers :
        /\ Alone(c1, 2, c2)
        /\ Returned(c1)
        /\ calls[c1].path = "per_schema"
        /\ calls[c1].schemas[1] # calls[c1].schemas[2]
        /\ calls[c1].ret[1] # calls[c1].ret[2]

\* two calls with the same entry point, batch and context
SameInputs(c1, c2) ==
    /\ c1 # c2
    /\ calls[c1].pc # "idle"
    /\ calls[c2].pc # "idle"
    /\ calls[c1].entry = calls[c2].entry
    /\ calls[c1].schemas = calls[c2].schemas
    /\ calls[c1].context = calls[c2].context

\* C6: the outcome of a call depends on the node, the batch, the context and
\* the store alone: two calls with the same inputs over the same store,
\* one after the other or interleaved, end with the same outcome, and while
\* in flight the results they have gathered agree.
C6_Deterministic ==
    \A c1 \in Callers, c2 \in Callers :
        SameInputs(c1, c2) =>
            /\ (Finished(c1) /\ Finished(c2)) =>
                  /\ calls[c1].pc = calls[c2].pc
                  /\ calls[c1].ret = calls[c2].ret
                  /\ calls[c1].exc = calls[c2].exc
            /\ \A k \in 1..Len(calls[c1].acc) :
                  k <= Len(calls[c2].acc) => calls[c1].acc[k] = calls[c2].acc[k]
            /\ (Raised(c1) /\ ~Finished(c2)) => calls[c2].i <= calls[c1].i

\* two calls with the same two-schema batch, one finished and the other
\* still in flight past its first schema: they ran interleaved
C6_Witness ==
    \E c1 \in Callers, c2 \in Callers :
        /\ SameInputs(c1, c2)
        /\ Len(calls[c1].schemas) = 2
        /\ calls[c1].schemas[1] # calls[c1].schemas[2]
        /\ Returned(c1)
        /\ calls[c2].pc = "embed"
        /\ calls[c2].i = 2

\* every vector a call holds: returned, or gathered so far
Vectors(c) ==
    { calls[c].ret[k].main : k \in 1..Len(calls[c].ret) }
        \cup { calls[c].acc[k].main : k \in 1..Len(calls[c].acc) }

\* C7: every vector in a result of the node has the node's declared length,
\* be it the default vector, a stored vector or an embedding.
C7_VectorLength ==
    \A c \in Callers : \A v \in Vectors(c) : Len(v) = length

\* a returned embedding of a label outside the categories
C7_Witness ==
    \E c \in Callers :
        /\ Returned(c)
        /\ Len(parents) = 1
        /\ calls[c].path = "per_schema"
        /\ \E k \in 1..Len(calls[c].ret) :
              /\ calls[c].schemas[k].field = Pink
              /\ calls[c].ret[k].main = <<0, 0, 1>>

\* C8: with the LESS_THAN_TWO_PARENTS policy a construction with two or more
\* parents fails with a configuration error and leaves no node; with zero or
\* one parent it succeeds; a construction evaluates nothing, reads no stored
\* value and asks no parent.
C8_ArityState ==
    /\ ctor = "ok" => (ctor_arg < 2 /\ Len(parents) = ctor_arg)
    /\ ctor = "ConfigurationError" => (ctor_arg >= 2 /\ parents = <<>>)
    /\ ctor_arg >= 2 => ctor = "ConfigurationError"
    /\ ctor # "ok" => (AllIdle /\ \A k \in Keys : store[k] = Absent)

C8_ArityStep ==
    (ctor' # ctor \/ ctor_arg' # ctor_arg) =>
        /\ calls' = calls
        /\ store' = store
        /\ ctor_arg' < 2 => ctor' = "ok"

\* C8: the arity policy holds in every state, and every construction step
\* leaves the calls and the store as they were.
C8_Arity == []C8_ArityState /\ [][C8_ArityStep]_vars

\* a construction with two parents has failed
C8_Witness == ctor = "ConfigurationError" /\ ctor_arg = 2

\* the keys of the first n schemas of a call's batch
KeysUpTo(c, n) == [k \in 1..n |-> key(calls[c].schemas[k])]

\* C9 as stated: no evaluation step writes the store, a node with a parent
\* loads nothing, and a parentless node outside a default pass has issued,
\* when its call ends, one load for every schema of the batch.
C9_OriginalState ==
    \A c \in Callers :
        /\ Len(parents) > 0 => calls[c].loads = <<>>
        /\ (Len(parents) = 0 /\ calls[c].path = "per_schema" /\ Finished(c)) =>
              calls[c].loads = KeysUpTo(c, Len(calls[c].schemas))

\* C9 as stated, over states and steps.
C9_Original == []C9_OriginalState /\ [][calls' # calls => store' = store]_vars

\* C9 amended: no evaluation step writes the store; a node with a parent
\* loads nothing; a parentless node outside a default pass issues one load
\* for every schema it evaluates, in input order: all of the batch when the
\* call returns, those up to and including the first schema without a stored
\* value when it fails.
C9_LoadsState ==
    \A c \in Callers :
        /\ Len(parents) > 0 => calls[c].loads = <<>>
        /\ (Len(parents) = 0 /\ calls[c].path = "per_schema") =>
              /\ Returned(c) => calls[c].loads = KeysUpTo(c, Len(calls[c].schemas))
              /\ Raised(c) => calls[c].loads = KeysUpTo(c, calls[c].i)
              /\ ~Finished(c) => calls[c].loads = KeysUpTo(c, calls[c].i - 1)

\* C9 amended, over states and steps: the loads of every call are those of
\* the schemas it has evaluated, and no step of a call changes the store.
C9_Loads == []C9_LoadsState /\ [][calls' # calls => store' = store]_vars

\* a parentless node has failed on the first of two schemas: one load was
\* issued, none for the second schema
C9_Witness ==
    \E c \in Callers :
        /\ Len(parents) = 0
        /\ Raised(c)
        /\ Len(calls[c].schemas) = 2
        /\ calls[c].i = 1
        /\ Len(calls[c].loads) = 1

(***************************************************************************)
(* The parent calls of the node                                            *)
(***************************************************************************)
\* the parent calls for the first n schemas of a call's batch, each with the
\* context the call was given
ParentCallsUpTo(c, n) ==
    [k \in 1..n |-> [schema |-> calls[c].schemas[k], context |-> calls[c].context]]

\* the embedding of the main value the parent gives for a schema
EmbeddedParentValue(parsed_schema, context) ==
    EvaluationResult(embed(parent_evaluate_next_single(parsed_schema, context).text, context))

\* a call that goes schema by schema through a node with one parent
ThroughParent(c) == Len(parents) = 1 /\ calls[c].path = "per_schema"

\* C15 as stated: when the evaluation of a batch of n schemas by a node with
\* one parent has ended, the parent was called exactly n times, once per
\* schema in input order with the context given.
C15_Original ==
    \A c \in Callers :
        (ThroughParent(c) /\ Finished(c)) =>
            calls[c].pcalls = ParentCallsUpTo(c, Len(calls[c].schemas))

\* C15 amended: a node with one parent calls parents[0].evaluate_next_single
\* once per schema it evaluates, in input order and with the context it was
\* given: for all n schemas when the evaluation returns, for the schemas up to
\* and including the first failing one when it fails.  The result of a schema
\* is the embedding of the main value the parent gave for it.
C15_ParentCallsState ==
    \A c \in Callers :
        ThroughParent(c) =>
            LET r == calls[c] IN
            /\ Returned(c) =>
                  /\ r.pcalls = ParentCallsUpTo(c, Len(r.schemas))
                  /\ r.ret = [k \in 1..Len(r.schemas) |->
                                 EmbeddedParentValue(r.schemas[k], r.context)]
            /\ Raised(c) => r.pcalls = ParentCallsUpTo(c, r.i)
            /\ r.pc = "embed" =>
                  /\ r.pcalls = ParentCallsUpTo(c, r.i)
                  /\ r.input_ = parent_evaluate_next_single(r.schemas[r.i], r.context)
            /\ r.pc = "single" => r.pcalls = ParentCallsUpTo(c, r.i - 1)
            /\ r.pc \in {"embed", "single"} =>
                  r.acc = [k \in 1..(r.i - 1) |->
                              EmbeddedParentValue(r.schemas[k], r.context)]

\* the embedding of a schema's value is applied in a step of its own that
\* starts after the parent was called for that schema, and it calls no parent
C15_ParentCallsStep ==
    \A c \in Callers :
        (ThroughParent(c) /\ Len(calls'[c].acc) > Len(calls[c].acc)) =>
            /\ Len(calls[c].pcalls) = Len(calls'[c].acc)
            /\ calls'[c].pcalls = calls[c].pcalls

C15_ParentCalls == []C15_ParentCallsState /\ [][C15_ParentCallsStep]_vars

\* a batch of two schemas went through the parent outside a default pass and
\* has returned: two parent calls, two embedded results
C15_Witness ==
    \E c \in Callers :
        /\ ThroughParent(c)
        /\ Returned(c)
        /\ calls[c].entry = "batch"
        /\ ~calls[c].context.is_default_pass
        /\ Len(calls[c].schemas) = 2
        /\ Len(calls[c].pcalls) = 2
        /\ Len(calls[c].ret) = 2

(***************************************************************************)
(* Properties of the loader                                                *)
(***************************************************************************)
Configs(sources) == {s.config : s \in sources}

\* C10: registering a source whose configuration equals that of a registered
\* one leaves the registered set as it is (a warning is logged, nothing is
\* raised): the set holds every distinct configuration once, and a load emits
\* one task identifier per registered source.
C10_DedupState ==
    /\ \A s1 \in data_loader_sources, s2 \in data_loader_sources :
          s1.config = s2.config => s1 = s2
    /\ Cardinality(data_loader_sources) = Cardinality(Configs(data_loader_sources))
    /\ warnings \subseteq Configs(data_loader_sources)

C10_DedupStep ==
    /\ data_loader_sources \subseteq data_loader_sources'
    /\ Configs(data_loader_sources' \ data_loader_sources)
          \cap Configs(data_loader_sources) = {}
    /\ uuids' # uuids =>
          /\ Cardinality(task_ids') = Cardinality(data_loader_sources)
          /\ Configs({t.source : t \in {u \in data_loader_tasks' : u.name \in task_ids'}})
                = Configs(data_loader_sources)

\* C10: the registered set is duplicate-free in every state, every step only
\* adds sources with new configurations, and a load emits one identifier
\* per registered source.
C10_Dedup == []C10_DedupState /\ [][C10_DedupStep]_vars

\* the duplicate of a registered source was met and skipped, and a load
\* over the two registered sources has emitted two identifiers
C10_Witness ==
    /\ PlainConfig \in warnings
    /\ Cardinality(data_loader_sources) = 2
    /\ Cardinality(task_ids) = 2

TaskNames == {t.name : t \in data_loader_tasks}

TaskNamed(n) == CHOOSE t \in data_loader_tasks : t.name = n

\* the rows a task has put into the sink of a source object, in the order of
\* the puts
RECURSIVE PutsOf(_, _)
PutsOf(n, entries) ==
    IF entries = <<>> THEN <<>>
    ELSE IF Head(entries).task = n
         THEN <<Head(entries).rows>> \o PutsOf(n, Tail(entries))
         ELSE PutsOf(n, Tail(entries))

\* C11: a call of load starts exactly one task per registered source and
\* returns one identifier per registered source; the identifiers name tracked
\* tasks, and when load returns none of the tasks it started has read, put or
\* finished anything.
C11_LoadState == task_ids \subseteq TaskNames

C11_LoadStep ==
    uuids' # uuids =>
        LET created == data_loader_tasks' \ data_loader_tasks IN
        /\ data_loader_tasks \subseteq data_loader_tasks'
        /\ Cardinality(created) = Cardinality(data_loader_sources)
        /\ \A s \in data_loader_sources :
              Cardinality({t \in created : t.source = s}) = 1
        /\ task_ids' = {t.name : t \in created}
        /\ Cardinality(task_ids') = Cardinality(data_loader_sources)
        /\ \A t \in created : t.state = "running" /\ t.step = "read"
        /\ sinks' = sinks

C11_Load == []C11_LoadState /\ [][C11_LoadStep]_vars

\* a load over two registered sources has returned two identifiers, and
\* neither task has started to read
C11_Witness ==
    /\ Cardinality(data_loader_sources) = 2
    /\ Cardinality(task_ids) = 2
    /\ \A n \in task_ids :
          /\ n \in TaskNames
          /\ TaskNamed(n).state = "running"
          /\ TaskNamed(n).step = "read"

TaskIds == 1..(MaxTasks + 1)

\* C12: get_task_status_by_name never raises, and its answer is the one the
\* state of the task determines: None exactly for an identifier that names no
\* task, "still running" exactly for a task that is not done, "cancelled"
\* exactly for a cancelled task, "failed" with the text of the exception
\* exactly for a task that ended by raising, and "completed successfully"
\* exactly for a task that ended without raising.
C12_Status ==
    \A id \in TaskIds :
        LET answer == get_task_status_by_name(id) IN
        /\ ~Raises(answer)
        /\ answer = "None" <=> id \notin TaskNames
        /\ id \in TaskNames =>
              LET t == TaskNamed(id) IN
              /\ answer = "Task is still running" <=> t.state = "running"
              /\ answer = "Task was cancelled" <=> t.state = "cancelled"
              /\ answer \in FailedAnswers <=> t.state = "failed"
              /\ t.state = "failed" => answer = FailedWith(t.exc)
              /\ answer = "Task completed successfully" <=> t.state = "done"

\* one task was cancelled, another failed on a path that does not exist and
\* was queried (its traceback is in the log), a third identifier is unknown
C12_Witness ==
    \E n1 \in TaskIds, n2 \in TaskIds, n3 \in TaskIds :
        /\ get_task_status_by_name(n1) = "Task was cancelled"
        /\ get_task_status_by_name(n2) = FailedWith("FileNotFoundError")
        /\ n2 \in error_log
        /\ get_task_status_by_name(n3) = "None"

\* what a task of a source with this config does when nothing but its own
\* source decides: the frames it puts before the reader first raises, and the
\* exception it ends with ("none" when it returns)
RECURSIVE ReadablePrefix(_)
ReadablePrefix(frames) ==
    IF frames = <<>> THEN <<>>
    ELSE IF Unreadable(Head(frames)) THEN <<>>
    ELSE <<Head(frames)>> \o ReadablePrefix(Tail(frames))

ExpectedPuts(config) == ReadablePrefix(read_data(config).frames)

ExpectedExc(config) ==
    LET data == read_data(config) IN
    IF data.kind = "raise" THEN data.exc
    ELSE IF \E k \in DOMAIN data.frames : Unreadable(data.frames[k]) THEN "ParserError"
    ELSE "none"

\* the thread of the task has ended and the task was not cancelled
Ended(t) == t.step = "end" /\ t.state # "cancelled"

NewlyFailed(t2) ==
    /\ t2 \in data_loader_tasks'
    /\ t2.state = "failed"
    /\ \A t \in data_loader_tasks : t.name = t2.name => t.state # "failed"

\* C13: the end of a task and the rows it delivers depend on its own source
\* alone, whatever other sources are registered and whatever their tasks do:
\* it fails exactly when its own read fails, and it has put exactly the
\* frames of its own source into the sink of its own source.
C13_IsolatedState ==
    \A t \in data_loader_tasks :
        Ended(t) =>
            /\ t.exc = ExpectedExc(t.source.config)
            /\ t.state = IF t.exc = "none" THEN "done" ELSE "failed"
            /\ PutsOf(t.name, sinks[t.source.obj]) = ExpectedPuts(t.source.config)
            /\ \A o \in SourceObjects \ {t.source.obj} : PutsOf(t.name, sinks[o]) = <<>>

\* the step in which a task fails changes the record of that task and
\* nothing else: no other task, no sink, nothing load has returned
C13_IsolatedStep ==
    \A t2 \in data_loader_tasks' :
        NewlyFailed(t2) =>
            /\ data_loader_tasks' \ {t2} \subseteq data_loader_tasks
            /\ sinks' = sinks
            /\ task_ids' = task_ids
            /\ data_loader_sources' = data_loader_sources

C13_Isolated == []C13_IsolatedState /\ [][C13_IsolatedStep]_vars

\* of the two tasks one load has started, the one on the path that does not
\* exist has failed and the other has completed with its rows in its sink
C13_Witness ==
    \E t1 \in data_loader_tasks, t2 \in data_loader_tasks :
        /\ {t1.name, t2.name} = task_ids
        /\ t1.state = "failed"
        /\ t1.exc = "FileNotFoundError"
        /\ get_task_status_by_name(t1.name) = FailedWith("FileNotFoundError")
        /\ t2.state = "done"
        /\ ExpectedPuts(t2.source.config) # <<>>
        /\ PutsOf(t2.name, sinks[t2.source.obj]) = ExpectedPuts(t2.source.config)

RECURSIVE Flatten(_)
Flatten(frames) ==
    IF frames = <<>> THEN <<>> ELSE Head(frames) \o Flatten(Tail(frames))

\* the number of puts for the rows of a source: one for a whole frame, one
\* per chunk of at most chunksize rows otherwise
PutCount(config) ==
    LET n == Len(Files[config.path]) IN
    IF config.chunksize = 0 THEN 1
    ELSE (n + config.chunksize - 1) \div config.chunksize

\* C14: when the status of a task is "completed successfully", the sink of
\* its source holds from that task the rows of the source, each once and in
\* the order read (one put for a whole frame, one put per chunk otherwise),
\* and no other sink holds anything from that task.
C14_Delivered ==
    \A id \in TaskIds :
        get_task_status_by_name(id) = "Task completed successfully" =>
            LET t    == TaskNamed(id)
                puts == PutsOf(id, sinks[t.source.obj])
            IN  /\ t.source.config.path \in DOMAIN Files
                /\ Flatten(puts) = Files[t.source.config.path]
                /\ Len(puts) = PutCount(t.source.config)
                /\ \A k \in DOMAIN puts :
                      t.source.config.chunksize > 0 =>
                         Len(puts[k]) <= t.source.config.chunksize
                /\ \A o \in SourceObjects \ {t.source.obj} : PutsOf(id, sinks[o]) = <<>>

\* a task over a whole frame and a task over a chunked reader have both
\* completed: one put of three rows, and two puts of two rows and one row
C14_Witness ==
    \E n1 \in TaskIds, n2 \in TaskIds :
        /\ get_task_status_by_name(n1) = "Task completed successfully"
        /\ get_task_status_by_name(n2) = "Task completed successfully"
        /\ TaskNamed(n1).source.config = PlainConfig
        /\ TaskNamed(n2).source.config = ChunkedConfig
        /\ PutsOf(n1, sinks[TaskNamed(n1).source.obj]) = <<Rows>>
        /\ Len(PutsOf(n2, sinks[TaskNamed(n2).source.obj])) = 2

TerminalAnswers ==
    {"Task completed successfully", "Task was cancelled"} \cup FailedAnswers

\* a source whose file exists and is read and put to its end
Readable(config) == ExpectedExc(config) = "none"

\* C16 as stated, for its second half: the task of a readable source is in
\* the end seen as "completed successfully".
C16_Original ==
    \A n \in 1..MaxTasks :
        (n \in TaskNames /\ Readable(TaskNamed(n).source.config))
            ~> (get_task_status_by_name(n) = "Task completed successfully")

\* C16 amended: with threads that are scheduled, every task load has started
\* leaves "still running" for a terminal status, and the task of a readable
\* source is in the end seen as "completed successfully" unless it was
\* cancelled, and then as "cancelled".
C16_Terminates ==
    \A n \in 1..MaxTasks :
        (n \in TaskNames)
            ~> /\ get_task_status_by_name(n) \in TerminalAnswers
               /\ Readable(TaskNamed(n).source.config) =>
                     get_task_status_by_name(n) \in
                        {"Task completed successfully", "Task was cancelled"}

\* every task the bound allows was started and none is still running: one
\* has completed, one has ended otherwise
C16_Witness ==
    /\ uuids = MaxTasks
    /\ \A n \in 1..MaxTasks : get_task_status_by_name(n) \in TerminalAnswers
    /\ \E n \in 1..MaxTasks : get_task_status_by_name(n) = "Task completed successfully"
    /\ \E n \in 1..MaxTasks : get_task_status_by_name(n) # "Task completed successfully"

\* C17: a terminal status is for ever: once the status of an identifier is
\* "cancelled", "failed" or "completed successfully", no step (register,
\* load, status query, thread step, cancellation) changes it, and no step
\* removes a tracked task, so a known identifier never becomes unknown.
C17_StableStep ==
    \A id \in TaskIds :
        /\ get_task_status_by_name(id) \in TerminalAnswers =>
              get_task_status_by_name(id)' = get_task_status_by_name(id)
        /\ get_task_status_by_name(id) # "None" =>
              get_task_status_by_name(id)' # "None"

C17_Stable == [][C17_StableStep]_vars

\* a task failed and was queried (its traceback is in the log); a later load
\* has started another task, and the status of the first is still "failed"
C17_Witness ==
    \E n \in TaskIds :
        /\ n \in error_log
        /\ n \notin task_ids
        /\ task_ids # {}
        /\ get_task_status_by_name(n) \in FailedAnswers

TasksOf(s) == {t \in data_loader_tasks : t.source = s}

\* C18: no step removes a registered source, and every call of load starts,
\* for every registered source, one new task under a name no earlier task
\* has, whatever the earlier tasks of that source are doing; the earlier
\* tasks stay tracked, so every load over n sources adds n tasks.
C18_ReloadStep ==
    /\ data_loader_sources \subseteq data_loader_sources'
    /\ uuids' # uuids =>
          LET created == data_loader_tasks' \ data_loader_tasks IN
          /\ data_loader_sources' = data_loader_sources
          /\ data_loader_tasks \subseteq data_loader_tasks'
          /\ \A s \in data_loader_sources :
                Cardinality({t \in created : t.source = s}) = 1
          /\ {t.name : t \in created} \cap TaskNames = {}
          /\ Cardinality(data_loader_tasks') =
                Cardinality(data_loader_tasks) + Cardinality(data_loader_sources)

\* the tasks tracked are all the tasks ever started, one name each
C18_ReloadState ==
    /\ Cardinality(data_loader_tasks) = uuids
    /\ Cardinality(TaskNames) = uuids

C18_Reload == []C18_ReloadState /\ [][C18_ReloadStep]_vars

\* two loads over one registered source: two tasks are tracked, both have
\* completed, and the sink of the source has received its rows twice
C18_Witness ==
    \E s \in data_loader_sources :
        /\ data_loader_sources = {s}
        /\ Cardinality(TasksOf(s)) = 2
        /\ \A t \in TasksOf(s) : t.state = "done"
        /\ Len(sinks[s.obj]) = 2 * Len(ExpectedPuts(s.config))
        /\ Flatten([k \in DOMAIN sinks[s.obj] |-> sinks[s.obj][k].rows])
              \in {Files[s.config.path] \o Files[s.config.path]}
        /\ Cardinality(task_ids) = 1

IsPrefix(s1, s2) == Len(s1) <= Len(s2) /\ s1 = SubSeq(s2, 1, Len(s1))

\* C19: the puts of a task are at every moment a prefix of the chunk sequence
\* of its source; a task that failed on chunk j has put the chunks before j
\* and no other, and they stay in the sink: no step takes anything out of a
\* sink.
C19_PrefixState ==
    \A t \in data_loader_tasks :
        LET puts   == PutsOf(t.name, sinks[t.source.obj])
            chunks == read_data(t.source.config).frames
        IN  /\ IsPrefix(puts, chunks)
            /\ t.state = "failed" =>
                  /\ puts = ReadablePrefix(chunks)
                  /\ Len(puts) < Len(chunks) \/ chunks = <<>>

C19_PrefixStep ==
    \A o \in SourceObjects : IsPrefix(sinks[o], sinks'[o])

C19_Prefix == []C19_PrefixState /\ [][C19_PrefixStep]_vars

\* the task of the chunked source over the broken file has failed on its
\* second chunk: its status is "failed" and its first chunk is in the sink
C19_Witness ==
    \E t \in data_loader_tasks :
        /\ t.source.config = BrokenConfig
        /\ get_task_status_by_name(t.name) = FailedWith("ParserError")
        /\ Len(read_data(BrokenConfig).frames) = 2
        /\ PutsOf(t.name, sinks[t.source.obj]) = <<SubSeq(BrokenRows, 1, 2)>>

====
